---- MODULE Spec2Model ----
(***************************************************************************)
(* State-machine model of kotilaatikko.fi:                                *)
(*   Checkout (frontend/src/Views/Checkout.jsx),                          *)
(*   Profile  (the admin/user profile view),                              *)
(*   ProtectedRoute (frontend/src/Components/ProtectedRoute.jsx) and      *)
(*   the Express app (backend/src/app.js).                                *)
(* React component state is the model state; every event handler and      *)
(* every continuation of an awaited network call is one action.  A        *)
(* request to the Express app moves through the stack one layer a step.   *)
(***************************************************************************)
EXTENDS Integers, Sequences, FiniteSets, TLC

(***************************************************************************)
(* JavaScript values.  Strings are TLA+ strings; the two non-string       *)
(* values a state cell can hold are represented by reserved strings.      *)
(***************************************************************************)
Null == "<null>"
Undefined == "<undefined>"

\* JavaScript truthiness of a string-or-null-or-undefined value
Truthy(v) == v \notin {Null, Undefined, ""}

\* a || b
Or(a, b) == IF Truthy(a) THEN a ELSE b

\* Array.prototype.join
RECURSIVE join(_, _)
join(arr, sep) ==
  IF Len(arr) = 0 THEN ""
  ELSE IF Len(arr) = 1 THEN arr[1]
  ELSE arr[1] \o sep \o join(Tail(arr), sep)

(***************************************************************************)
(* Bounds of the model                                                     *)
(***************************************************************************)
\* the cart holds between 0 and MaxCartItems items
MaxCartItems == 1
\* meal ids known to the server are 1..MaxMeals
MaxMeals == 1
\* at most this many calls of one kind of the Checkout view are outstanding
MaxInFlight == 2
\* at most this many fetchMeals calls are outstanding
MaxMealFetches == 1
\* at most this many fetchNewsletters calls are outstanding
MaxNewsletterFetches == 1

(***************************************************************************)
(* Inputs                                                                  *)
(***************************************************************************)
FieldNames ==
  {"firstName", "lastName", "email", "address", "postalCode", "city",
   "country", "phone"}

\* what the user types into a text input of the form
TypedValues == {"", "a"}
\* the text inputs the modelled user edits (the form has no phone input)
EditNames == {"firstName", "email"}
\* the options of the country <select> the modelled user picks
CountryOptions == {"FI"}

\* the carts the cart context can hand to the view: item ids 1..n
Carts == {[i \in 1..n |-> i] : n \in 0..MaxCartItems}

\* messages of errors thrown by a network call (fetch, createKlarnaOrder,
\* getUserByToken, fetchData); an Error may carry an empty message
ErrMessages == {"Failed to fetch", ""}

\* the user objects getUserByToken can resolve to
FullUser ==
  [firstName |-> "a", lastName |-> "a", email |-> "a", address |-> "a",
   postalCode |-> "a", city |-> "a", country |-> "FI", phone |-> "a"]
PartialUser ==
  [firstName |-> "a", lastName |-> Undefined, email |-> "a", address |-> "a",
   postalCode |-> "a", city |-> "a", country |-> Undefined,
   phone |-> Undefined]
Users == {FullUser, PartialUser}

\* the values the user context can hold: null, undefined, or a user object
\* whose type is 'admin' or 'user'
NullUser == [is |-> "null", type |-> Undefined]
UndefinedUser == [is |-> "undefined", type |-> Undefined]
ContextUsers ==
  {NullUser, UndefinedUser} \cup
  {[is |-> "object", type |-> t] : t \in {"admin", "user"}}

\* the elements a route can hand to ProtectedRoute as its children
Children == {"<Profile />", "<Checkout />", "<Orders />"}

\* the meal lists GET /meals can answer with: ids in ascending order
MealLists ==
  {s \in UNION {[1..n -> 1..MaxMeals] : n \in 0..MaxMeals} :
     \A i \in 1..Len(s) - 1 : s[i] < s[i + 1]}

\* the newsletter lists GET /newsletter can answer with
NewsletterLists == {<<1>>}

\* the responses createKlarnaOrder can resolve to
KlarnaResponses ==
  [html_snippet : {Undefined, "<div>klarna</div>"},
   redirect_url : {Undefined, "https://klarna/pay"}]

\* the Response objects fetch can resolve to: only `ok` is read
Responses == [ok : BOOLEAN]

(***************************************************************************)
(* Asynchronous calls.  An awaited call is outstanding from the moment the *)
(* handler makes it until the handler resumes after the await; it is       *)
(* pending until the network settles it as resolved (with a value) or      *)
(* rejected (with the message of the thrown error).                        *)
(***************************************************************************)
Pending(none) == [status |-> "pending", message |-> "", value |-> none]
Resolved(v) == [status |-> "resolved", message |-> "", value |-> v]
Rejected(msg, none) == [status |-> "rejected", message |-> msg, value |-> none]

\* placeholder values of a call that has no value (yet)
NoKlarna == [html_snippet |-> Undefined, redirect_url |-> Undefined]
NoResponse == [ok |-> FALSE]
NoUser == [f \in FieldNames |-> Undefined]

\* the sequence without its i-th element
RemoveAt(seq, i) ==
  [j \in 1..Len(seq) - 1 |-> IF j < i THEN seq[j] ELSE seq[j + 1]]

PaymentMethods == {"klarna", "paypal", "dummy"}


(***************************************************************************)
(* State                                                                   *)
(***************************************************************************)
VARIABLES
  location,       \* the route the router shows
  cartItems,      \* useCart().cartItems
  customerInfo,   \* Checkout state
  paymentMethod,
  isProcessing,
  error,
  klarnaSnippet,
  user,           \* <<>> for null, <<u>> for a user object
  loadingUser,
  userError,
  alerts,         \* the messages window.alert has presented
  inflight,       \* outstanding calls of the Checkout view, by kind
  contextUser,    \* useUserContext().user
  meals,          \* Profile state
  isLoading,
  profileError,
  activeTab,
  newsletters,
  profileInflight, \* outstanding calls of the Profile view, by kind
  deletedSince,   \* history: the ids handleMealDeleted has removed since
                  \* the latest outstanding fetchMeals call began (every
                  \* outstanding call was in flight at those deletions)
  children,       \* the children prop of the mounted ProtectedRoute
  rendered,       \* <<>>, or <<r>> for the latest render of ProtectedRoute:
                  \* the user it read and what it returned
  request,        \* the HTTP request the Express app is handling
  layer,          \* its place in the app's stack: 0 when no request is
                  \* being handled, else the index of the layer to run
  err,            \* the message of the error passed to next(), or Null
  response,       \* <<>>, or <<r>> once the response has been sent
  visited         \* history: the layers that have run for the request

checkoutVars ==
  <<cartItems, customerInfo, paymentMethod, isProcessing, error,
    klarnaSnippet, user, loadingUser, userError, alerts, inflight>>

profileVars ==
  <<contextUser, meals, isLoading, profileError, activeTab, newsletters,
    profileInflight, deletedSince>>

routeVars == <<children, rendered>>

appVars == <<request, layer, err, response, visited>>

vars == <<location, checkoutVars, profileVars, routeVars, appVars>>

(***************************************************************************)
(* Checkout: construction                                                  *)
(***************************************************************************)
InitCustomerInfo ==
  [firstName |-> "", lastName |-> "", email |-> "", address |-> "",
   postalCode |-> "", city |-> "", country |-> "Finland", phone |-> ""]

InitCheckout ==
  /\ cartItems \in Carts
  /\ customerInfo = InitCustomerInfo
  /\ paymentMethod = "klarna"
  /\ isProcessing = FALSE
  /\ error = Null
  /\ klarnaSnippet = ""
  /\ user = <<>>
  /\ loadingUser = FALSE
  /\ userError = Null
  /\ alerts = {}
  /\ inflight = [klarna |-> <<>>, orders |-> <<>>, user |-> <<>>]

(***************************************************************************)
(* Checkout: render                                                        *)
(***************************************************************************)
\* the component without its early return for an empty cart
CheckoutRenderNoEmptyCheck ==
  IF Truthy(klarnaSnippet) THEN "klarnaSnippet" ELSE "form"

\* which of the three bodies the component returns
CheckoutRender ==
  IF Len(cartItems) = 0 THEN "emptyCart"
  ELSE IF Truthy(klarnaSnippet) THEN "klarnaSnippet"
  ELSE "form"

CheckoutMounted == location = "/checkout"

\* the error strings the rendered body shows in its red banners
CheckoutBanners ==
  IF ~CheckoutMounted \/ CheckoutRender = "emptyCart" THEN {}
  ELSE {m \in {userError} : Truthy(m)}
         \cup {m \in {error} : CheckoutRender = "form" /\ Truthy(m)}

\* the form and its inputs are on screen
FormRendered == CheckoutMounted /\ CheckoutRender = "form"

(***************************************************************************)
(* Checkout: the network settles an outstanding call                       *)
(***************************************************************************)
\* the i-th outstanding call of a kind becomes outcome
Settle(kind, i, outcome) ==
  /\ CheckoutMounted
  /\ i \in 1..Len(inflight[kind])
  /\ inflight[kind][i].status = "pending"
  /\ inflight' = [inflight EXCEPT ![kind][i] = outcome]
  /\ UNCHANGED <<location, cartItems, customerInfo, paymentMethod,
                 isProcessing, error, klarnaSnippet, user, loadingUser,
                 userError, alerts, profileVars, routeVars, appVars>>

createKlarnaOrderSettles ==
  \E i \in 1..MaxInFlight :
    \/ \E r \in KlarnaResponses : Settle("klarna", i, Resolved(r))
    \/ \E msg \in ErrMessages : Settle("klarna", i, Rejected(msg, NoKlarna))

postOrdersSettles ==
  \E i \in 1..MaxInFlight :
    \/ \E r \in Responses : Settle("orders", i, Resolved(r))
    \/ \E msg \in ErrMessages : Settle("orders", i, Rejected(msg, NoResponse))

getUserByTokenSettles ==
  \E i \in 1..MaxInFlight :
    \/ \E u \in Users : Settle("user", i, Resolved(u))
    \/ \E msg \in ErrMessages : Settle("user", i, Rejected(msg, NoUser))

(***************************************************************************)
(* Checkout: handlers                                                      *)
(***************************************************************************)
\* the cart context re-renders the view with another cart
CartChanged ==
  /\ CheckoutMounted
  /\ \E c \in Carts \ {cartItems} : cartItems' = c
  /\ UNCHANGED <<location, customerInfo, paymentMethod,
                 isProcessing, error, klarnaSnippet, user, loadingUser,
                 userError, alerts, inflight, profileVars, routeVars, appVars>>

handleInputChange(name, value) ==
  /\ FormRendered
  /\ customerInfo' = [customerInfo EXCEPT ![name] = value]
  /\ UNCHANGED <<location, cartItems, paymentMethod, isProcessing,
                 error, klarnaSnippet, user, loadingUser, userError, alerts,
                 inflight, profileVars, routeVars, appVars>>

setPaymentMethod(m) ==
  /\ FormRendered
  /\ paymentMethod' = m
  /\ UNCHANGED <<location, cartItems, customerInfo, isProcessing,
                 error, klarnaSnippet, user, loadingUser, userError, alerts,
                 inflight, profileVars, routeVars, appVars>>

\* requiredFields with 'email' forgotten
requiredFieldsWithoutEmail ==
  <<"firstName", "lastName", "address", "postalCode", "city", "country">>

requiredFields ==
  <<"firstName", "lastName", "email", "address", "postalCode", "city",
    "country">>

missingFields(info) ==
  SelectSeq(requiredFields, LAMBDA field : ~Truthy(info[field]))

PaypalAlert == "PayPal payment is not implemented yet."

\* the catch block of handleSubmit without the finally block
submitCatchWithoutFinally(msg) ==
  /\ error' = "Maksuvirhe: " \o msg
  /\ UNCHANGED isProcessing

\* the catch and finally blocks of handleSubmit, for an error with message msg
submitCatch(msg) ==
  /\ error' = "Maksuvirhe: " \o msg
  /\ isProcessing' = FALSE

\* the validation failure branch of handleSubmit
submitMissing(missing) ==
  /\ error' = "Puuttuvat kentät: " \o join(missing, ", ")
  /\ isProcessing' = FALSE
  /\ UNCHANGED <<alerts, inflight>>

\* the klarna branch of handleSubmit up to `await createKlarnaOrder(...)`
submitKlarna ==
  /\ Len(inflight.klarna) < MaxInFlight
  /\ inflight' = [inflight EXCEPT !.klarna = Append(@, Pending(NoKlarna))]
  /\ isProcessing' = TRUE
  /\ error' = Null
  /\ UNCHANGED alerts

\* the paypal branch throwing instead of alerting
submitPaypalThrows ==
  /\ error' = "Maksuvirhe: PayPal payment is not implemented yet."
  /\ isProcessing' = FALSE
  /\ UNCHANGED <<alerts, inflight>>

\* the paypal branch of handleSubmit, and the finally block
submitPaypal ==
  /\ alerts' = alerts \cup {PaypalAlert}
  /\ isProcessing' = FALSE
  /\ error' = Null
  /\ UNCHANGED inflight

\* the dummy branch of handleSubmit when setIsProcessing(true) is forgotten
submitDummyNotProcessing ==
  /\ Len(inflight.orders) < MaxInFlight
  /\ inflight' = [inflight EXCEPT !.orders = Append(@, Pending(NoResponse))]
  /\ isProcessing' = FALSE
  /\ error' = Null
  /\ UNCHANGED alerts

\* the dummy branch of handleSubmit up to `await fetch(.../orders)`
submitDummy ==
  /\ Len(inflight.orders) < MaxInFlight
  /\ inflight' = [inflight EXCEPT !.orders = Append(@, Pending(NoResponse))]
  /\ isProcessing' = TRUE
  /\ error' = Null
  /\ UNCHANGED alerts

\* handleSubmit up to its first await (or to its end when it awaits nothing).
\* The handler is reachable whatever the inputs hold: the `required`
\* attributes of the inputs are the browser's check, not the handler's.
handleSubmit ==
  /\ FormRendered
  /\ ~isProcessing                      \* the submit button is disabled
  /\ IF Len(missingFields(customerInfo)) > 0
       THEN submitMissing(missingFields(customerInfo))
     ELSE IF paymentMethod = "klarna" THEN submitKlarna
     ELSE IF paymentMethod = "paypal" THEN submitPaypal
     ELSE IF paymentMethod = "dummy" THEN submitDummy
     ELSE /\ submitCatch("Invalid payment method selected")
          /\ UNCHANGED <<alerts, inflight>>
  /\ UNCHANGED <<location, cartItems, customerInfo, paymentMethod,
                 klarnaSnippet, user, loadingUser, userError,
                 profileVars, routeVars, appVars>>

\* the Klarna response test forgotten: every response is accepted
klarnaAcceptedUnchecked(klarnaResponse) ==
  klarnaResponse \in KlarnaResponses

\* the test handleSubmit applies to the Klarna response
klarnaAccepted(klarnaResponse) ==
  ~(~Truthy(klarnaResponse.html_snippet)
      /\ ~Truthy(klarnaResponse.redirect_url))

\* handleSubmit from `await createKlarnaOrder(...)` to its end
handleSubmitAfterKlarna(i) ==
  /\ CheckoutMounted
  /\ i \in 1..Len(inflight.klarna)
  /\ inflight.klarna[i].status # "pending"
  /\ inflight' = [inflight EXCEPT !.klarna = RemoveAt(@, i)]
  /\ LET call == inflight.klarna[i] IN
       IF call.status = "rejected"
       THEN /\ submitCatch(call.message)
            /\ UNCHANGED klarnaSnippet
       ELSE IF ~klarnaAccepted(call.value)
       THEN /\ submitCatch("No valid payment URL received from Klarna")
            /\ UNCHANGED klarnaSnippet
       ELSE /\ klarnaSnippet' = call.value.html_snippet
            /\ isProcessing' = FALSE
            /\ UNCHANGED error
  /\ UNCHANGED <<location, cartItems, customerInfo, paymentMethod, user,
                 loadingUser, userError, alerts,
                 profileVars, routeVars, appVars>>

\* handleSubmit resuming without the test of response.ok
handleSubmitAfterOrdersUnchecked(i) ==
  /\ CheckoutMounted
  /\ i \in 1..Len(inflight.orders)
  /\ inflight.orders[i].status # "pending"
  /\ inflight' = [inflight EXCEPT !.orders = RemoveAt(@, i)]
  /\ IF inflight.orders[i].status = "rejected"
       THEN /\ error' = "Maksuvirhe: " \o inflight.orders[i].message
            /\ UNCHANGED location
       ELSE /\ location' = "/confirmation"
            /\ UNCHANGED error
  /\ isProcessing' = FALSE
  /\ UNCHANGED <<cartItems, customerInfo, paymentMethod, klarnaSnippet, user,
                 loadingUser, userError, alerts,
                 profileVars, routeVars, appVars>>

\* handleSubmit from `await fetch(.../orders)` to its end
handleSubmitAfterOrders(i) ==
  /\ CheckoutMounted
  /\ i \in 1..Len(inflight.orders)
  /\ inflight.orders[i].status # "pending"
  /\ inflight' = [inflight EXCEPT !.orders = RemoveAt(@, i)]
  /\ LET call == inflight.orders[i] IN
       IF call.status = "rejected"
       THEN /\ submitCatch(call.message)
            /\ UNCHANGED location
       ELSE IF ~call.value.ok
       THEN /\ submitCatch("Tilausta ei voitu lähettää tietokantaan.")
            /\ UNCHANGED location
       ELSE /\ location' = "/confirmation"
            /\ isProcessing' = FALSE
            /\ UNCHANGED error
  /\ UNCHANGED <<cartItems, customerInfo, paymentMethod, klarnaSnippet, user,
                 loadingUser, userError, alerts,
                 profileVars, routeVars, appVars>>

\* fetchUserData behind a pre-fill button that is never disabled
fetchUserDataNeverDisabled ==
  /\ CheckoutMounted
  /\ CheckoutRender # "emptyCart"
  /\ Len(inflight.user) < MaxInFlight
  /\ inflight' = [inflight EXCEPT !.user = Append(@, Pending(NoUser))]
  /\ loadingUser' = TRUE
  /\ userError' = Null
  /\ UNCHANGED <<location, cartItems, customerInfo, paymentMethod,
                 isProcessing, error, klarnaSnippet, user, alerts,
                 profileVars, routeVars, appVars>>

\* fetchUserData up to `await getUserByToken()`
fetchUserData ==
  /\ CheckoutMounted
  /\ CheckoutRender # "emptyCart"       \* the button is in the main body
  /\ ~loadingUser                       \* the button is disabled
  /\ Len(inflight.user) < MaxInFlight
  /\ inflight' = [inflight EXCEPT !.user = Append(@, Pending(NoUser))]
  /\ loadingUser' = TRUE
  /\ userError' = Null
  /\ UNCHANGED <<location, cartItems, customerInfo, paymentMethod,
                 isProcessing, error, klarnaSnippet, user, alerts,
                 profileVars, routeVars, appVars>>

\* setCustomerInfo's argument when the country has no 'Finland' fallback
populateNoCountryDefault(u) ==
  [firstName |-> Or(u.firstName, ""),
   lastName |-> Or(u.lastName, ""),
   email |-> Or(u.email, ""),
   address |-> Or(u.address, ""),
   postalCode |-> Or(u.postalCode, ""),
   city |-> Or(u.city, ""),
   country |-> Or(u.country, ""),
   phone |-> Or(u.phone, "")]

\* the object fetchUserData passes to setCustomerInfo
populate(u) ==
  [firstName |-> Or(u.firstName, ""),
   lastName |-> Or(u.lastName, ""),
   email |-> Or(u.email, ""),
   address |-> Or(u.address, ""),
   postalCode |-> Or(u.postalCode, ""),
   city |-> Or(u.city, ""),
   country |-> Or(u.country, "Finland"),
   phone |-> Or(u.phone, "")]

\* the catch block of fetchUserData without its fallback message
userErrorMessageNoFallback(msg) == msg

\* the string the catch block of fetchUserData passes to setUserError
userErrorMessage(msg) == Or(msg, "Failed to fetch user data")

\* fetchUserData from `await getUserByToken()` to its end
fetchUserDataAfterAwait(i) ==
  /\ CheckoutMounted
  /\ i \in 1..Len(inflight.user)
  /\ inflight.user[i].status # "pending"
  /\ inflight' = [inflight EXCEPT !.user = RemoveAt(@, i)]
  /\ LET call == inflight.user[i] IN
       IF call.status = "rejected"
       THEN /\ userError' = userErrorMessage(call.message)
            /\ UNCHANGED <<user, customerInfo>>
       ELSE /\ user' = <<call.value>>
            /\ customerInfo' = populate(call.value)
            /\ UNCHANGED userError
  /\ loadingUser' = FALSE
  /\ UNCHANGED <<location, cartItems, paymentMethod, isProcessing,
                 error, klarnaSnippet, alerts,
                 profileVars, routeVars, appVars>>

NextCheckout ==
  \/ CartChanged
  \/ \E name \in EditNames, value \in TypedValues :
       handleInputChange(name, value)
  \/ \E value \in CountryOptions : handleInputChange("country", value)
  \/ \E m \in PaymentMethods : setPaymentMethod(m)
  \/ handleSubmit
  \/ createKlarnaOrderSettles
  \/ \E i \in 1..MaxInFlight : handleSubmitAfterKlarna(i)
  \/ postOrdersSettles
  \/ \E i \in 1..MaxInFlight : handleSubmitAfterOrders(i)
  \/ fetchUserData
  \/ getUserByTokenSettles
  \/ \E i \in 1..MaxInFlight : fetchUserDataAfterAwait(i)

(***************************************************************************)
(* Profile: construction, with the mount effect run                        *)
(***************************************************************************)
Tabs == {"mealPackages", "orderTracking", "newsletter"}

\* user?.type
userType == IF contextUser.is = "object" THEN contextUser.type ELSE Undefined

IsAdmin == userType = "admin"

\* the Response objects of GET /newsletter: `ok` and the parsed body
NewsletterResponses == [ok : BOOLEAN, data : NewsletterLists]
NoNewsletters == [ok |-> FALSE, data |-> <<>>]

InitProfile ==
  /\ contextUser \in ContextUsers
  /\ meals = <<>>
  /\ isLoading = TRUE
  /\ profileError = Null
  /\ activeTab = "mealPackages"
  /\ newsletters = <<>>
  /\ profileInflight =
       [meals |-> <<Pending(<<>>)>>,
        newsletter |-> IF IsAdmin THEN <<Pending(NoNewsletters)>> ELSE <<>>]
  /\ deletedSince = {}

(***************************************************************************)
(* Profile: render                                                         *)
(***************************************************************************)
\* renderTabContent with a misspelt case label
renderTabContentTypo(tab) ==
  CASE tab = "mealPackages" -> {"mealPackages"}
    [] tab = "orders" -> {"orderTracking"}
    [] tab = "newsletter" -> {"newsletter"}
    [] OTHER -> {}

\* the panels renderTabContent returns for a tab
renderTabContent(tab) ==
  CASE tab = "mealPackages" -> {"mealPackages"}
    [] tab = "orderTracking" -> {"orderTracking"}
    [] tab = "newsletter" -> {"newsletter"}
    [] OTHER -> {}

\* the panels the Profile view shows
ProfileRender ==
  IF IsAdmin THEN renderTabContent(activeTab) ELSE {"UserProfile"}

ProfileMounted == location = "/profile"

\* the admin panel of a tab is on screen
PanelRendered(tab) == ProfileMounted /\ tab \in ProfileRender

(***************************************************************************)
(* Profile: the network settles an outstanding call                        *)
(***************************************************************************)
ProfileSettle(kind, i, outcome) ==
  /\ ProfileMounted
  /\ i \in 1..Len(profileInflight[kind])
  /\ profileInflight[kind][i].status = "pending"
  /\ profileInflight' = [profileInflight EXCEPT ![kind][i] = outcome]
  /\ UNCHANGED <<location, checkoutVars, routeVars, appVars,
                 contextUser, meals, isLoading,
                 profileError, activeTab, newsletters, deletedSince>>

getMealsSettles ==
  \E i \in 1..MaxMealFetches :
    \/ \E data \in MealLists : ProfileSettle("meals", i, Resolved(data))
    \/ \E msg \in ErrMessages : ProfileSettle("meals", i, Rejected(msg, <<>>))

getNewsletterSettles ==
  \E i \in 1..MaxNewsletterFetches :
    \/ \E r \in NewsletterResponses :
         ProfileSettle("newsletter", i, Resolved(r))
    \/ ProfileSettle("newsletter", i,
                      Rejected("Failed to fetch", NoNewsletters))

(***************************************************************************)
(* Profile: handlers                                                       *)
(***************************************************************************)
setActiveTab(tab) ==
  /\ ProfileMounted
  /\ IsAdmin
  /\ activeTab' = tab
  /\ UNCHANGED <<location, checkoutVars, routeVars, appVars,
                 contextUser, meals, isLoading,
                 profileError, newsletters, profileInflight,
                 deletedSince>>

\* handleMealAdded: fetchMeals up to `await fetchData(...)`
handleMealAdded ==
  /\ PanelRendered("mealPackages")
  /\ Len(profileInflight.meals) < MaxMealFetches
  /\ profileInflight' =
       [profileInflight EXCEPT !.meals = Append(@, Pending(<<>>))]
  /\ deletedSince' = {}
  /\ UNCHANGED <<location, checkoutVars, routeVars, appVars,
                 contextUser, meals, isLoading,
                 profileError, activeTab, newsletters>>

\* fetchMeals from `await fetchData(...)` to its end
fetchMealsAfterAwait(i) ==
  /\ ProfileMounted
  /\ i \in 1..Len(profileInflight.meals)
  /\ profileInflight.meals[i].status # "pending"
  /\ profileInflight' = [profileInflight EXCEPT !.meals = RemoveAt(@, i)]
  /\ deletedSince' =
       IF Len(profileInflight.meals) = 1 THEN {} ELSE deletedSince
  /\ LET call == profileInflight.meals[i] IN
       IF call.status = "rejected"
       THEN /\ profileError' = call.message
            /\ UNCHANGED meals
       ELSE /\ meals' = call.value
            /\ UNCHANGED profileError
  /\ isLoading' = FALSE
  /\ UNCHANGED <<location, checkoutVars, routeVars, appVars,
                 contextUser, activeTab,
                 newsletters>>

handleMealDeleted(id) ==
  /\ PanelRendered("mealPackages")
  /\ \E i \in 1..Len(meals) : meals[i] = id
  /\ meals' = SelectSeq(meals, LAMBDA meal : meal # id)
  /\ deletedSince' =
       IF profileInflight.meals = <<>> THEN {} ELSE deletedSince \cup {id}
  /\ UNCHANGED <<location, checkoutVars, routeVars, appVars,
                 contextUser, isLoading,
                 profileError, activeTab, newsletters, profileInflight>>

\* fetchNewsletters up to `await fetch(...)`
fetchNewsletters ==
  /\ PanelRendered("newsletter")
  /\ Len(profileInflight.newsletter) < MaxNewsletterFetches
  /\ profileInflight' =
       [profileInflight EXCEPT
          !.newsletter = Append(@, Pending(NoNewsletters))]
  /\ UNCHANGED <<location, checkoutVars, routeVars, appVars,
                 contextUser, meals, isLoading,
                 profileError, activeTab, newsletters, deletedSince>>

\* fetchNewsletters from `await fetch(...)` to its end
fetchNewslettersAfterAwait(i) ==
  /\ ProfileMounted
  /\ i \in 1..Len(profileInflight.newsletter)
  /\ profileInflight.newsletter[i].status # "pending"
  /\ profileInflight' =
       [profileInflight EXCEPT !.newsletter = RemoveAt(@, i)]
  /\ LET call == profileInflight.newsletter[i] IN
       IF call.status = "rejected" \/ ~call.value.ok
       THEN UNCHANGED newsletters     \* console.error only
       ELSE newsletters' = call.value.data
  /\ UNCHANGED <<location, checkoutVars, routeVars, appVars,
                 contextUser, meals, isLoading,
                 profileError, activeTab, deletedSince>>

NextProfile ==
  \/ \E tab \in Tabs : setActiveTab(tab)
  \/ handleMealAdded
  \/ getMealsSettles
  \/ \E i \in 1..MaxMealFetches : fetchMealsAfterAwait(i)
  \/ \E id \in 1..MaxMeals : handleMealDeleted(id)
  \/ fetchNewsletters
  \/ getNewsletterSettles
  \/ \E i \in 1..MaxNewsletterFetches : fetchNewslettersAfterAwait(i)

(***************************************************************************)
(* ProtectedRoute                                                          *)
(***************************************************************************)
\* !user
NoUserInContext(u) == u.is \in {"null", "undefined"}

\* <Navigate to={to} />
Navigate(to) == "<Navigate to=\"" \o to \o "\" />"

\* ProtectedRoute testing `user === null` instead of `!user`
ProtectedRouteNullOnly(u, ch) ==
  IF u.is = "null" THEN Navigate("/login") ELSE ch

\* what ProtectedRoute returns for the context's user and its children
ProtectedRoute(u, ch) ==
  IF NoUserInContext(u) THEN Navigate("/login") ELSE ch

\* a route whose element is wrapped in ProtectedRoute is shown
ProtectedMounted == location = "/protected"

\* React calls the component: it reads the context and returns an element
ProtectedRouteRender ==
  /\ ProtectedMounted
  /\ rendered' = <<[user |-> contextUser,
                    children |-> children,
                    output |-> ProtectedRoute(contextUser, children)]>>
  /\ UNCHANGED <<location, checkoutVars, profileVars, children, appVars>>

\* the user context changes: login, logout, or the stored token is resolved
setUser(u) ==
  /\ ProtectedMounted
  /\ u # contextUser
  /\ contextUser' = u
  /\ UNCHANGED <<location, checkoutVars, meals, isLoading, profileError,
                 activeTab, newsletters, profileInflight, deletedSince,
                 routeVars, appVars>>

\* the router shows another protected route: other children are handed in
setChildren(ch) ==
  /\ ProtectedMounted
  /\ ch # children
  /\ children' = ch
  /\ UNCHANGED <<location, checkoutVars, profileVars, rendered, appVars>>

NextProtected ==
  \/ ProtectedRouteRender
  \/ \E u \in ContextUsers : setUser(u)
  \/ \E ch \in Children : setChildren(ch)

\* no ProtectedRoute has been called
InitRoute ==
  /\ children \in Children
  /\ rendered = <<>>

(***************************************************************************)
(* The Express app: one request at a time through the stack of app.js      *)
(***************************************************************************)
allowedOrigins == {"http://localhost:5173", "http://10.120.32.65"}

\* the Origin headers of the modelled requests; Undefined is no header
Origins == allowedOrigins \cup {Undefined, "http://evil.example"}

\* request paths, as their segments: /, /uploads/a.png, /api/v1/meals,
\* /api/v1/klarna/session, /other
Paths ==
  {<<>>, <<"uploads", "a.png">>, <<"api", "v1", "meals">>,
   <<"api", "v1", "klarna", "session">>, <<"other">>}

\* a POST carries a JSON body, well-formed or not; the others carry none
Requests ==
  [origin : Origins, method : {"GET", "OPTIONS"}, path : Paths,
   body : {"none"}]
  \cup
  [origin : Origins, method : {"POST"}, path : Paths,
   body : {"json", "malformed"}]

NoRequest ==
  [origin |-> Undefined, method |-> "GET", path |-> <<>>, body |-> "none"]

\* the layers in the order app.js registers them; a layer with four
\* parameters is an error handler
Stack ==
  <<[name |-> "express.json", mount |-> <<>>, method |-> "*",
     exact |-> FALSE, errorHandler |-> FALSE],
    [name |-> "cors", mount |-> <<>>, method |-> "*",
     exact |-> FALSE, errorHandler |-> FALSE],
    [name |-> "errorMiddleware", mount |-> <<>>, method |-> "*",
     exact |-> FALSE, errorHandler |-> TRUE],
    [name |-> "/", mount |-> <<>>, method |-> "GET",
     exact |-> TRUE, errorHandler |-> FALSE],
    [name |-> "/uploads", mount |-> <<"uploads">>, method |-> "*",
     exact |-> FALSE, errorHandler |-> FALSE],
    [name |-> "/api/v1", mount |-> <<"api", "v1">>, method |-> "*",
     exact |-> FALSE, errorHandler |-> FALSE],
    [name |-> "/api/v1/klarna", mount |-> <<"api", "v1", "klarna">>,
     method |-> "*", exact |-> FALSE, errorHandler |-> FALSE]>>

\* past the last layer Express answers by itself (404, or the error)
Finalhandler == Len(Stack) + 1

IsPrefix(p, q) == Len(p) <= Len(q) /\ SubSeq(q, 1, Len(p)) = p

\* Express runs layer l for the request: error handlers only for an error,
\* the others only without one, and only on a matching path and method
Matches(l, req, e) ==
  /\ l.errorHandler <=> (e # Null)
  /\ IsPrefix(l.mount, req.path)
  /\ l.exact => req.path = l.mount
  /\ l.method \in {"*", req.method}

\* next() and next(err): the first layer after `from` that matches
NextLayer(from, req, e) ==
  LET later == {k \in from + 1..Len(Stack) : Matches(Stack[k], req, e)} IN
    IF later = {} THEN Finalhandler
    ELSE CHOOSE k \in later : \A j \in later : k <= j

\* the layer about to run
Running(name) ==
  /\ layer \in 1..Len(Stack)
  /\ Stack[layer].name = name
  /\ response = <<>>

\* next(e) called by the running layer
next(e) ==
  /\ err' = e
  /\ layer' = NextLayer(layer, request, e)
  /\ visited' = Append(visited, Stack[layer].name)
  /\ UNCHANGED <<request, response>>

\* the running layer sends the response
send(status, body) ==
  /\ response' = <<[status |-> status, body |-> body]>>
  /\ visited' = Append(visited, Stack[layer].name)
  /\ UNCHANGED <<request, layer, err>>

\* a request arrives when none is being handled
receive(req) ==
  /\ layer = 0 \/ response # <<>>
  /\ request' = req
  /\ layer' = NextLayer(0, req, Null)
  /\ err' = Null
  /\ response' = <<>>
  /\ visited' = <<>>
  /\ UNCHANGED <<location, checkoutVars, profileVars, routeVars>>

JsonParseError == "Unexpected end of JSON input"

\* express.json(): a body that does not parse is passed on as an error
expressJson ==
  /\ Running("express.json")
  /\ IF request.body = "malformed" THEN next(JsonParseError) ELSE next(Null)
  /\ UNCHANGED <<location, checkoutVars, profileVars, routeVars>>

CorsError == "Not allowed by CORS"

\* the origin callback that lets every origin through
originAllowedAlways(origin) == TRUE

\* the test of the origin callback handed to cors()
originAllowed(origin) == ~Truthy(origin) \/ origin \in allowedOrigins

\* cors(): the origin callback decides; an accepted OPTIONS request is
\* answered by cors itself, any other accepted request is handed on
corsMiddleware ==
  /\ Running("cors")
  /\ IF ~originAllowed(request.origin) THEN next(CorsError)
     ELSE IF request.method = "OPTIONS" THEN send(204, "")
     ELSE next(Null)
  /\ UNCHANGED <<location, checkoutVars, profileVars, routeVars>>

\* the error middleware
errorMiddleware ==
  /\ Running("errorMiddleware")
  /\ send(500, err)
  /\ UNCHANGED <<location, checkoutVars, profileVars, routeVars>>

\* app.get('/')
getRoot ==
  /\ Running("/")
  /\ send(200, "Welcome to my REST API!")
  /\ UNCHANGED <<location, checkoutVars, profileVars, routeVars>>

\* express.static: a GET of a file that exists is served, anything else
\* falls through
serveUploads ==
  /\ Running("/uploads")
  /\ \/ request.method = "GET" /\ send(200, "<file>")
     \/ next(Null)
  /\ UNCHANGED <<location, checkoutVars, profileVars, routeVars>>

\* a router answers on one of its routes, or falls through
router(name) ==
  /\ Running(name)
  /\ \/ \E status \in {200, 404} : send(status, name)
     \/ next(Null)
  /\ UNCHANGED <<location, checkoutVars, profileVars, routeVars>>

api == router("/api/v1")

klarnaRouter == router("/api/v1/klarna")

\* no layer is left: Express answers 404
finalhandler ==
  /\ layer = Finalhandler
  /\ response = <<>>
  /\ err = Null
  /\ response' = <<[status |-> 404, body |-> "Not Found"]>>
  /\ visited' = Append(visited, "finalhandler")
  /\ UNCHANGED <<request, layer, err>>
  /\ UNCHANGED <<location, checkoutVars, profileVars, routeVars>>

NextApp ==
  \/ \E req \in Requests : receive(req)
  \/ expressJson
  \/ corsMiddleware
  \/ errorMiddleware
  \/ getRoot
  \/ serveUploads
  \/ api
  \/ klarnaRouter
  \/ finalhandler

\* the app listens and no request has arrived
InitApp ==
  /\ request = NoRequest
  /\ layer = 0
  /\ err = Null
  /\ response = <<>>
  /\ visited = <<>>

(***************************************************************************)
(* The application: the router shows one of the two views                  *)
(***************************************************************************)
Init ==
  /\ location \in {"/checkout", "/profile"}
  /\ InitCheckout
  /\ InitProfile
  /\ InitRoute
  /\ children = "<Profile />"
  /\ InitApp
  \* the view that is not shown takes no step: its inputs are held fixed
  /\ location = "/checkout" => contextUser = NullUser
  /\ location = "/profile" => cartItems = <<>>

Next == NextCheckout \/ NextProfile

Spec == Init /\ [][Next]_vars

(***************************************************************************)
(* The router shows a protected route: neither view is mounted             *)
(***************************************************************************)
\* the state of the two views when neither is mounted
InitUnmounted ==
  /\ InitCheckout
  /\ cartItems = <<>>
  /\ meals = <<>>
  /\ isLoading = TRUE
  /\ profileError = Null
  /\ activeTab = "mealPackages"
  /\ newsletters = <<>>
  /\ profileInflight = [meals |-> <<>>, newsletter |-> <<>>]
  /\ deletedSince = {}

InitProtected ==
  /\ location = "/protected"
  /\ InitUnmounted
  /\ contextUser \in ContextUsers
  /\ InitRoute
  /\ InitApp

SpecProtected == InitProtected /\ [][NextProtected]_vars

(***************************************************************************)
(* The backend alone: no page of the frontend is open                      *)
(***************************************************************************)
InitBackend ==
  /\ location = "about:blank"
  /\ InitUnmounted
  /\ contextUser = NullUser
  /\ InitRoute
  /\ children = "<Profile />"
  /\ InitApp

SpecApp == InitBackend /\ [][NextApp]_vars

TypeOK ==
  /\ location \in {"/checkout", "/profile", "/confirmation"}
  /\ cartItems \in Carts
  /\ paymentMethod \in PaymentMethods
  /\ isProcessing \in BOOLEAN
  /\ loadingUser \in BOOLEAN
  /\ Len(user) <= 1
  /\ activeTab \in Tabs

(***************************************************************************)
(* Vocabulary of the properties                                            *)
(***************************************************************************)
\* the required inputs of the form, in the order of the form
RequiredInOrder ==
  <<"firstName", "lastName", "email", "address", "postalCode", "city",
    "country">>

\* the required fields of customerInfo that are empty
EmptyRequired ==
  {RequiredInOrder[k] : k \in {j \in 1..7 : customerInfo[RequiredInOrder[j]] = ""}}

\* the names of a set of fields, comma-separated
RECURSIVE Listing(_, _)
Listing(names, chosen) ==
  IF names = <<>> THEN ""
  ELSE LET rest == Listing(Tail(names), chosen) IN
         IF Head(names) \notin chosen THEN rest
         ELSE IF rest = "" THEN Head(names)
         ELSE Head(names) \o ", " \o rest

NoSubmitCallOutstanding == inflight.klarna = <<>> /\ inflight.orders = <<>>

(***************************************************************************)
(* C1: whenever handleSubmit runs with at least one required field of      *)
(* customerInfo empty, whatever the payment method, it makes no network    *)
(* call, sets error to the message listing exactly the empty required      *)
(* fields, and leaves isProcessing false.                                  *)
(***************************************************************************)
C1_ValidationShortCircuits ==
  [][(handleSubmit /\ EmptyRequired # {}) =>
       /\ inflight' = inflight
       /\ error' = "Puuttuvat kentät: "
                     \o Listing(RequiredInOrder, EmptyRequired)
       /\ isProcessing' = FALSE
       /\ location' = location]_vars

\* a dummy-payment submission was refused because only the email is empty
C1_Witness ==
  /\ FormRendered
  /\ paymentMethod = "dummy"
  /\ EmptyRequired = {"email"}
  /\ error = "Puuttuvat kentät: email"
  /\ ~isProcessing
  /\ NoSubmitCallOutstanding

(***************************************************************************)
(* C2: in every state of the Checkout view with an empty cart the "cart   *)
(* is empty" body is rendered, the form is not, and handleSubmit cannot    *)
(* be started.                                                             *)
(***************************************************************************)
C2_EmptyCartBlocksCheckout ==
  (CheckoutMounted /\ Len(cartItems) = 0) =>
    /\ CheckoutRender = "emptyCart"
    /\ ~FormRendered
    /\ ~ENABLED handleSubmit

\* the cart was emptied while a submission of a complete form is outstanding
C2_Witness ==
  /\ CheckoutMounted
  /\ Len(cartItems) = 0
  /\ EmptyRequired = {}
  /\ isProcessing
  /\ Len(inflight.orders) = 1

(***************************************************************************)
(* C3: when handleSubmit resumes with a Klarna response that has neither   *)
(* html_snippet nor redirect_url, it sets error to a non-empty message,    *)
(* leaves klarnaSnippet unset, keeps the form rendered and does not        *)
(* navigate.                                                               *)
(***************************************************************************)
C3_KlarnaWithoutUrlIsError ==
  [][\A i \in 1..MaxInFlight :
       (/\ handleSubmitAfterKlarna(i)
        /\ inflight.klarna[i].status = "resolved"
        /\ inflight.klarna[i].value.html_snippet = Undefined
        /\ inflight.klarna[i].value.redirect_url = Undefined) =>
         /\ error' = "Maksuvirhe: No valid payment URL received from Klarna"
         /\ Truthy(error')
         /\ klarnaSnippet' = klarnaSnippet
         /\ ~Truthy(klarnaSnippet')
         /\ (FormRendered => FormRendered')
         /\ location' = location
         /\ isProcessing' = FALSE]_vars

\* the form shows the Klarna error after such a response
C3_Witness ==
  /\ FormRendered
  /\ error = "Maksuvirhe: No valid payment URL received from Klarna"
  /\ error \in CheckoutBanners
  /\ ~Truthy(klarnaSnippet)
  /\ ~isProcessing
  /\ inflight.klarna = <<>>

(***************************************************************************)
(* C4: when handleSubmit resumes with an accepted Klarna response (one     *)
(* that has an html_snippet or a redirect_url) and the cart is not empty,  *)
(* the Klarna snippet is rendered in place of the form.                    *)
(***************************************************************************)
C4_AcceptedKlarnaRendersSnippet ==
  [][\A i \in 1..MaxInFlight :
       (/\ handleSubmitAfterKlarna(i)
        /\ inflight.klarna[i].status = "resolved"
        /\ \/ inflight.klarna[i].value.html_snippet # Undefined
           \/ inflight.klarna[i].value.redirect_url # Undefined
        /\ Len(cartItems) > 0) =>
         CheckoutRender' = "klarnaSnippet"]_vars

(***************************************************************************)
(* C5: handleSubmit resuming with a successful POST /orders response       *)
(* navigates to /confirmation; the route changes in no other step, and a   *)
(* POST /orders is only ever made by a dummy-payment submission of a       *)
(* complete form.                                                          *)
(***************************************************************************)
C5_ConfirmationOnlyAfterOrder ==
  [][/\ \A i \in 1..MaxInFlight :
          (/\ handleSubmitAfterOrders(i)
           /\ inflight.orders[i].status = "resolved"
           /\ inflight.orders[i].value.ok) =>
            location' = "/confirmation"
     /\ location' # location =>
          /\ location' = "/confirmation"
          /\ \E i \in 1..Len(inflight.orders) :
               /\ inflight.orders[i] = Resolved([ok |-> TRUE])
               /\ inflight.orders' = RemoveAt(inflight.orders, i)
     /\ Len(inflight.orders') > Len(inflight.orders) =>
          /\ paymentMethod = "dummy"
          /\ EmptyRequired = {}
          /\ Len(cartItems) > 0]_vars

\* the view has navigated to the confirmation page
C5_Witness ==
  /\ location = "/confirmation"
  /\ EmptyRequired = {}
  /\ error = Null
  /\ ~isProcessing
  /\ inflight.orders = <<>>

(***************************************************************************)
(* C6: when handleSubmit resumes with a POST /orders that answered a       *)
(* non-success status or threw, error is set to the payment error          *)
(* message, there is no navigation, customerInfo and the cart are          *)
(* unchanged and isProcessing is false.                                    *)
(***************************************************************************)
C6_FailedOrderIsError ==
  [][\A i \in 1..MaxInFlight :
       (/\ handleSubmitAfterOrders(i)
        /\ \/ inflight.orders[i].status = "rejected"
           \/ ~inflight.orders[i].value.ok) =>
         /\ error' =
              IF inflight.orders[i].status = "rejected"
              THEN "Maksuvirhe: " \o inflight.orders[i].message
              ELSE "Maksuvirhe: Tilausta ei voitu lähettää tietokantaan."
         /\ Truthy(error')
         /\ location' = location
         /\ customerInfo' = customerInfo
         /\ cartItems' = cartItems
         /\ isProcessing' = FALSE]_vars

\* the form shows the order error after a non-success status
C6_Witness ==
  /\ FormRendered
  /\ error = "Maksuvirhe: Tilausta ei voitu lähettää tietokantaan."
  /\ error \in CheckoutBanners
  /\ ~isProcessing
  /\ inflight.orders = <<>>

(***************************************************************************)
(* C7: once the view has navigated to the confirmation page after a        *)
(* successful order, the cart is empty.                                    *)
(***************************************************************************)
C7_CartClearedAfterOrder ==
  location = "/confirmation" => Len(cartItems) = 0

(***************************************************************************)
(* C8: handleSubmit with payment method paypal and a complete form only    *)
(* presents the "not implemented" alert: no network call, no navigation,   *)
(* klarnaSnippet unchanged, no error, isProcessing false, and nothing      *)
(* else of the view state changes.                                         *)
(***************************************************************************)
C8_PaypalOnlyAlerts ==
  [][(handleSubmit /\ paymentMethod = "paypal" /\ EmptyRequired = {}) =>
       /\ alerts' = alerts \cup {"PayPal payment is not implemented yet."}
       /\ inflight' = inflight
       /\ location' = location
       /\ klarnaSnippet' = klarnaSnippet
       /\ error' = Null
       /\ isProcessing' = FALSE
       /\ UNCHANGED <<cartItems, customerInfo, paymentMethod, user,
                      loadingUser, userError>>]_vars

\* the alert was presented for a complete form and left no trace but itself
C8_Witness ==
  /\ FormRendered
  /\ paymentMethod = "paypal"
  /\ EmptyRequired = {}
  /\ alerts = {"PayPal payment is not implemented yet."}
  /\ error = Null
  /\ ~isProcessing
  /\ NoSubmitCallOutstanding

(***************************************************************************)
(* C9: in the admin Profile view activeTab is always one of mealPackages,  *)
(* orderTracking, newsletter, and exactly the panel of that tab is         *)
(* rendered.                                                               *)
(***************************************************************************)
C9_ExactlyOnePanel ==
  (ProfileMounted /\ IsAdmin) =>
    /\ activeTab \in {"mealPackages", "orderTracking", "newsletter"}
    /\ ProfileRender = {activeTab}
    /\ Cardinality(ProfileRender) = 1

\* the admin has selected the order tracking tab
C9_Witness ==
  /\ ProfileMounted
  /\ IsAdmin
  /\ activeTab = "orderTracking"
  /\ ProfileRender = {"orderTracking"}

(***************************************************************************)
(* C10                                                                     *)
(***************************************************************************)
\* a handler resumes after its i-th outstanding call of a kind failed
KlarnaFailed(i) ==
  handleSubmitAfterKlarna(i) /\ inflight.klarna[i].status = "rejected"

OrdersFailed(i) ==
  /\ handleSubmitAfterOrders(i)
  /\ inflight.orders[i].status = "rejected" \/ ~inflight.orders[i].value.ok

UserFailed(i) ==
  fetchUserDataAfterAwait(i) /\ inflight.user[i].status = "rejected"

MealsFailed(i) ==
  fetchMealsAfterAwait(i) /\ profileInflight.meals[i].status = "rejected"

NewslettersFailed(i) ==
  /\ fetchNewslettersAfterAwait(i)
  /\ \/ profileInflight.newsletter[i].status = "rejected"
     \/ ~profileInflight.newsletter[i].value.ok

\* the failed call is gone and no call was made in its place
CheckoutNotRetried(kind, i) ==
  /\ inflight' = [inflight EXCEPT ![kind] = RemoveAt(@, i)]
  /\ location' = location

ProfileNotRetried(kind, i) ==
  /\ profileInflight' = [profileInflight EXCEPT ![kind] = RemoveAt(@, i)]
  /\ location' = location

(***************************************************************************)
(* C10 as stated: every failed network call of the two views (Klarna       *)
(* session creation, POST /orders, user pre-fill, meals, newsletters) is   *)
(* caught, is not retried, and sets an error flag (a value other than the  *)
(* initial null) in the view state.                                        *)
(***************************************************************************)
C10_EveryFailureSetsErrorFlag ==
  [][/\ \A i \in 1..MaxInFlight :
          /\ KlarnaFailed(i) =>
               CheckoutNotRetried("klarna", i) /\ error' # Null
          /\ OrdersFailed(i) =>
               CheckoutNotRetried("orders", i) /\ error' # Null
          /\ UserFailed(i) =>
               CheckoutNotRetried("user", i) /\ userError' # Null
     /\ \A i \in 1..MaxMealFetches :
          MealsFailed(i) =>
            ProfileNotRetried("meals", i) /\ profileError' # Null
     /\ \A i \in 1..MaxNewsletterFetches :
          NewslettersFailed(i) =>
            ProfileNotRetried("newsletter", i) /\ profileError' # Null]_vars

(***************************************************************************)
(* C10 as amended: every failed network call of the two views is caught    *)
(* and is not retried.  A failed Klarna session creation or POST /orders   *)
(* sets error to a non-empty "Maksuvirhe: ..." string, shown while the     *)
(* form is rendered; a failed user pre-fill sets userError to the thrown   *)
(* message or, when that is empty, to "Failed to fetch user data", shown   *)
(* while the main body is rendered; a failed meals fetch sets the Profile  *)
(* error to the thrown message, empty or not; a failed newsletters fetch   *)
(* changes nothing in the view state.                                      *)
(***************************************************************************)
C10_FailuresCaughtNotRetried ==
  [][/\ \A i \in 1..MaxInFlight :
          /\ KlarnaFailed(i) =>
               /\ CheckoutNotRetried("klarna", i)
               /\ error' = "Maksuvirhe: " \o inflight.klarna[i].message
               /\ Truthy(error')
               /\ FormRendered' => error' \in CheckoutBanners'
          /\ OrdersFailed(i) =>
               /\ CheckoutNotRetried("orders", i)
               /\ \E m \in ErrMessages
                         \cup {"Tilausta ei voitu lähettää tietokantaan."} :
                    error' = "Maksuvirhe: " \o m
               /\ Truthy(error')
               /\ FormRendered' => error' \in CheckoutBanners'
          /\ UserFailed(i) =>
               /\ CheckoutNotRetried("user", i)
               /\ userError' =
                    IF inflight.user[i].message = ""
                    THEN "Failed to fetch user data"
                    ELSE inflight.user[i].message
               /\ Truthy(userError')
               /\ CheckoutRender' # "emptyCart" =>
                    userError' \in CheckoutBanners'
     /\ \A i \in 1..MaxMealFetches :
          MealsFailed(i) =>
            /\ ProfileNotRetried("meals", i)
            /\ profileError' = profileInflight.meals[i].message
            /\ isLoading' = FALSE
     /\ \A i \in 1..MaxNewsletterFetches :
          NewslettersFailed(i) =>
            /\ ProfileNotRetried("newsletter", i)
            /\ UNCHANGED <<meals, isLoading, profileError, activeTab,
                           newsletters>>]_vars

\* a user pre-fill that threw an error without a message is shown as an error
C10_Witness ==
  /\ CheckoutMounted
  /\ userError = "Failed to fetch user data"
  /\ userError \in CheckoutBanners
  /\ ~loadingUser
  /\ inflight.user = <<>>
  /\ user = <<>>

\* ---------------------------------------------------------------------------
\* C11
\* ---------------------------------------------------------------------------

\* the requests the Checkout view has started and not yet consumed
SubmitCallsInFlight == Len(inflight.klarna) + Len(inflight.orders)
PrefillCallsInFlight == Len(inflight.user)

\* C11 as stated: at most one request started by the Checkout view (user
\* pre-fill fetch, Klarna session creation, POST /orders) is in flight at
\* any time
C11_AtMostOneRequestInFlight ==
  SubmitCallsInFlight + PrefillCallsInFlight <= 1

\* C11 amended: at most one submission request (Klarna session creation or
\* POST /orders) and at most one user pre-fill fetch are in flight at any
\* time, and the two may overlap; the completion of a submission request
\* leaves the pre-fill state (user, customerInfo, userError, loadingUser)
\* alone and the completion of a pre-fill fetch leaves the submission state
\* (isProcessing, error, klarnaSnippet, the route) alone
C11_OneRequestPerKind ==
  /\ [](SubmitCallsInFlight <= 1 /\ PrefillCallsInFlight <= 1)
  /\ [][(\E i \in 1..MaxInFlight :
            handleSubmitAfterKlarna(i) \/ handleSubmitAfterOrders(i))
          => UNCHANGED <<user, customerInfo, userError, loadingUser>>]_vars
  /\ [][(\E i \in 1..MaxInFlight : fetchUserDataAfterAwait(i))
          => UNCHANGED <<isProcessing, error, klarnaSnippet, location>>]_vars

\* a Klarna session creation and a user pre-fill fetch are both outstanding
C11_Witness ==
  /\ CheckoutMounted
  /\ Len(inflight.klarna) = 1
  /\ Len(inflight.user) = 1
  /\ isProcessing
  /\ loadingUser

\* ---------------------------------------------------------------------------
\* C12
\* ---------------------------------------------------------------------------

\* C12: isProcessing is true exactly while a checkout submission is being
\* processed, that is, while handleSubmit is suspended at an awaited request;
\* it is false again after every completion path (validation failure, paypal
\* alert, success, thrown error); the submit button is disabled while it is
\* true, so at most one checkout submission is in flight at any time
C12_ProcessingWhileSubmitting ==
  /\ [](isProcessing <=> SubmitCallsInFlight = 1)
  /\ [](SubmitCallsInFlight <= 1)
  /\ [](isProcessing => ~ENABLED handleSubmit)
  /\ [][handleSubmit =>
          (isProcessing' <=> SubmitCallsInFlight' > SubmitCallsInFlight)]_vars
  /\ [][(\E i \in 1..MaxInFlight :
            handleSubmitAfterKlarna(i) \/ handleSubmitAfterOrders(i))
          => ~isProcessing']_vars

\* a POST /orders is outstanding: the form is still rendered, isProcessing is
\* true and a second submission cannot be started
C12_Witness ==
  /\ FormRendered
  /\ isProcessing
  /\ Len(inflight.orders) = 1
  /\ inflight.klarna = <<>>
  /\ ~ENABLED handleSubmit

\* ---------------------------------------------------------------------------
\* C13
\* ---------------------------------------------------------------------------

\* what the pre-fill puts in field f for the profile u: the profile's value,
\* or the empty string ('Finland' for the country) when it has none
ProfileValue(u, f) ==
  IF u[f] \in {Undefined, Null, ""}
  THEN (IF f = "country" THEN "Finland" ELSE "")
  ELSE u[f]

\* C13: when fetchUserData's request succeeds, all eight customerInfo fields
\* are replaced by the profile's values (empty string for a missing value,
\* 'Finland' for a missing country); when it fails, customerInfo is unchanged
\* and userError is set; in both cases loadingUser is false afterwards; and
\* the pre-fill button cannot be used while loadingUser is true
C13_PrefillPopulatesOrLeavesAlone ==
  /\ [][\A i \in 1..MaxInFlight :
          fetchUserDataAfterAwait(i) =>
            LET call == inflight.user[i] IN
              /\ call.status = "resolved" =>
                   /\ DOMAIN customerInfo' = FieldNames
                   /\ \A f \in FieldNames :
                        customerInfo'[f] = ProfileValue(call.value, f)
              /\ call.status = "rejected" =>
                   /\ customerInfo' = customerInfo
                   /\ Truthy(userError')
              /\ ~loadingUser']_vars
  /\ [](loadingUser => ~ENABLED fetchUserData)

\* a profile without last name, country and phone has been filled in: the
\* missing fields are empty, the country is 'Finland', and the button is
\* usable again
C13_Witness ==
  /\ CheckoutMounted
  /\ user = <<PartialUser>>
  /\ customerInfo.firstName = PartialUser.firstName
  /\ customerInfo.lastName = ""
  /\ customerInfo.phone = ""
  /\ customerInfo.country = "Finland"
  /\ ~loadingUser
  /\ ENABLED fetchUserData

\* ---------------------------------------------------------------------------
\* C14
\* ---------------------------------------------------------------------------

\* the ids of the meals on the list
MealIds(list) == {list[k] : k \in 1..Len(list)}

\* C14: once handleMealDeleted(id) has run, no fetchMeals request that was
\* already in flight at that deletion puts a meal with that id back on the
\* meals list when it completes
C14_DeletedMealStaysDeleted ==
  [][\A i \in 1..MaxMealFetches :
       fetchMealsAfterAwait(i) =>
         \A id \in deletedSince :
           id \notin MealIds(meals) => id \notin MealIds(meals')]_vars

\* ---------------------------------------------------------------------------
\* C15
\* ---------------------------------------------------------------------------

\* C15: ProtectedRoute never returns its children while the user context
\* holds no user: whenever the user it read is null or undefined it returns
\* a redirect to /login, and whenever it read a user it returns exactly the
\* children it was given
C15_ChildrenOnlyForUser ==
  \A k \in 1..Len(rendered) :
    LET r == rendered[k] IN
      /\ r.user.is \in {"null", "undefined"} =>
           /\ r.output = "<Navigate to=\"/login\" />"
           /\ r.output # r.children
      /\ r.user.is = "object" => r.output = r.children

\* ProtectedRoute was called while the context held undefined and returned
\* the redirect; the context has since received a user
C15_Witness ==
  /\ Len(rendered) = 1
  /\ rendered[1].user.is = "undefined"
  /\ rendered[1].output = "<Navigate to=\"/login\" />"
  /\ contextUser.is = "object"

\* ---------------------------------------------------------------------------
\* C16
\* ---------------------------------------------------------------------------

\* the request carries an Origin header that is not in allowedOrigins
OriginRefused ==
  /\ request.origin \notin {Undefined, Null, ""}
  /\ request.origin \notin allowedOrigins

RouteHandlers == {"/", "/uploads", "/api/v1", "/api/v1/klarna"}

\* the layer has run for the request being handled
Ran(name) == \E k \in 1..Len(visited) : visited[k] = name

Answered == response # <<>>

\* C16 as stated: a request whose Origin is not in allowedOrigins never
\* reaches a route handler, it is rejected by the CORS middleware and
\* answered 500 with that error's message by the error middleware; a request
\* with no Origin or an allowed one always passes the CORS middleware
C16_CorsDecidesEveryRequest ==
  /\ OriginRefused =>
       /\ \A h \in RouteHandlers : ~Ran(h)
       /\ Answered =>
            /\ Ran("cors")
            /\ Ran("errorMiddleware")
            /\ response[1] = [status |-> 500, body |-> "Not allowed by CORS"]
  /\ ~OriginRefused /\ Answered =>
       /\ Ran("cors")
       /\ err # "Not allowed by CORS"

\* C16 amended: a request whose Origin is not in allowedOrigins never reaches
\* a route handler and is answered 500 by the error middleware, with the CORS
\* error's message when express.json() accepted its body and with the body
\* parser's message (the CORS middleware not having run) when it did not; a
\* request with no Origin or an allowed one is never rejected by the CORS
\* middleware: when express.json() accepted its body it runs the CORS
\* middleware and is handed on to the routes, or answered 204 by the CORS
\* middleware itself when it is an OPTIONS request; when express.json() did
\* not accept its body it is answered 500 before the CORS middleware runs
C16_RefusedOriginNeverRouted ==
  /\ OriginRefused =>
       /\ \A h \in RouteHandlers : ~Ran(h)
       /\ Answered =>
            /\ Ran("errorMiddleware")
            /\ response[1].status = 500
            /\ IF request.body = "malformed"
               THEN ~Ran("cors") /\ response[1].body = JsonParseError
               ELSE Ran("cors") /\ response[1].body = "Not allowed by CORS"
  /\ ~OriginRefused =>
       /\ err # "Not allowed by CORS"
       /\ Answered /\ request.body = "malformed" =>
            /\ ~Ran("cors")
            /\ response[1] = [status |-> 500, body |-> JsonParseError]
       /\ Answered /\ request.body # "malformed" =>
            /\ Ran("cors")
            /\ ~Ran("errorMiddleware")
            /\ IF request.method = "OPTIONS"
               THEN /\ response[1].status = 204
                    /\ \A h \in RouteHandlers : ~Ran(h)
               ELSE visited[Len(visited)] \in RouteHandlers \cup {"finalhandler"}

\* a POST to /api/v1/meals from http://evil.example with a well-formed body
\* has been rejected by the CORS middleware and answered 500
C16_Witness ==
  /\ request.origin = "http://evil.example"
  /\ request.path = <<"api", "v1", "meals">>
  /\ request.body = "json"
  /\ visited = <<"express.json", "cors", "errorMiddleware">>
  /\ response = <<[status |-> 500, body |-> "Not allowed by CORS"]>>

====
